---- MODULE Spec2Model ----
(***************************************************************************)
(* Model of the RAG survey-analysis backend (src/backend/api.py and        *)
(* src/backend/Vectorstore.py).                                            *)
(*                                                                         *)
(* The four request handlers are coroutines without an await point, so the *)
(* event loop runs each of them to completion: one action per handler.     *)
(* Process-wide state: the upload directory, uploaded_files_registry and   *)
(* app.state.conversation.  `last` holds the request being answered        *)
(* together with its response and `trace` the calls the handler made while *)
(* serving it, until the response is delivered; `builds` records whether no, *)
(* one or several process_pdfs requests have returned success so far.      *)
(* `client` is the frame of the frontend's request_with_retry              *)
(* (src/frontend/client.py), with the log of what it has done.             *)
(***************************************************************************)
EXTENDS Integers, Sequences, FiniteSets, TLC

VARIABLES disk, uploaded_files_registry, conversation, builds, last, trace, client

vars == <<disk, uploaded_files_registry, conversation, builds, last, trace, client>>

(* ------------------------------ bounds -------------------------------- *)
MaxBatch == 2          \* files in one upload request
MaxBuildFiles == 2     \* identifiers in one process_pdfs request
MaxCompareFiles == 3   \* identifiers in one compare_reports request
MaxTurns == 2          \* turns kept in one conversation

(* --------------------------- program constants ------------------------ *)
PDF_DIR == "/tmp/uploaded_pdfs"
SnippetLen == 200
RetrieverK == 4

(* ------------------------------ strings ------------------------------- *)
\* File names are sequences of characters, so that lower() and endswith()
\* are computed and not assumed.
NameA == <<"a", ".", "p", "d", "f">>
NameB == <<"B", ".", "P", "D", "F">>
NameT == <<"n", ".", "t", "x", "t">>
PdfSuffix == <<".", "p", "d", "f">>

PdfIds == {NameA, NameB}

LowerChar(c) ==
    CASE c = "B" -> "b"
      [] c = "P" -> "p"
      [] c = "D" -> "d"
      [] c = "F" -> "f"
      [] OTHER -> c

Lower(s) == [i \in 1..Len(s) |-> LowerChar(s[i])]

EndsWith(s, suf) ==
    /\ Len(s) >= Len(suf)
    /\ SubSeq(s, Len(s) - Len(suf) + 1, Len(s)) = suf

IsPdfName(filename) == EndsWith(Lower(filename), PdfSuffix)

\* os.path.join(PDF_DIR, name) and os.path.basename(path), for plain names.
Join(dir, name) == [dir |-> dir, base |-> name]
Basename(path) == path.base

(* ------------------------ texts and PDF contents ---------------------- *)
\* A text is an opaque string of a known length; ws marks a text made of
\* whitespace only (strip() gives the empty string).
EmptyText == [id |-> "", len |-> 0, ws |-> TRUE]
TextLong == [id |-> "revenue", len |-> 250, ws |-> FALSE]
TextShort == [id |-> "ocr", len |-> 150, ws |-> FALSE]
TextSpaces == [id |-> "spaces", len |-> 3, ws |-> TRUE]

Truthy(t) == t.len > 0
Strip(t) == IF t.ws THEN EmptyText ELSE t
Prefix(t, n) == IF t.len <= n THEN t ELSE [t EXCEPT !.len = n]

\* What the PDF libraries give for a page: the outcome of page.extract_text()
\* and of the OCR route (convert_from_path + image_to_string).
Got(t) == [kind |-> "text", text |-> t]
Raises == [kind |-> "raise", text |-> EmptyText]
NoImage == [kind |-> "noimage", text |-> EmptyText]

PageScanFail == [direct |-> Got(TextSpaces), ocr |-> Raises]
PageScanOk == [direct |-> Got(EmptyText), ocr |-> Got(TextShort)]
PageText == [direct |-> Got(TextLong), ocr |-> NoImage]
PageBroken == [direct |-> Raises, ocr |-> NoImage]

\* The bytes of a file, and what PdfReader makes of them: whether it opens
\* the file, and its pages.
Corrupt == "corrupt bytes"
Blank == "blank scan"
Report == "report"
Scanned == "scanned report"
Damaged == "report with a damaged page"
Contents == {Corrupt, Blank, Report, Scanned, Damaged}

PdfReader(bytes) ==
    CASE bytes = Blank -> [opens |-> TRUE, pages |-> <<PageScanFail>>]
      [] bytes = Report -> [opens |-> TRUE, pages |-> <<PageScanFail, PageText>>]
      [] bytes = Scanned -> [opens |-> TRUE, pages |-> <<PageScanOk>>]
      [] bytes = Damaged -> [opens |-> TRUE, pages |-> <<PageText, PageBroken, PageScanOk>>]
      [] OTHER -> [opens |-> FALSE, pages |-> <<>>]

(* ------------------------------ helpers ------------------------------- *)
None == [kind |-> "None"]
Min(a, b) == IF a <= b THEN a ELSE b
SeqsUpTo(S, n) == UNION {[1..k -> S] : k \in 1..n}
\* A call the handler made, and a call that raised.
Ev(kind, what) == <<kind, what>>
Failed(kind, what) == <<kind, Append(what, "raised")>>

(* ------------------- src/backend/Vectorstore.py ----------------------- *)
\* The text get_pdf_text keeps for one page: the extracted text when it is
\* not blank, else the OCR text when OCR gives a non-blank one, else "".
\* An exception of the OCR route is caught; one of extract_text() is not.
OcrText(page) ==
    IF page.ocr.kind = "text" /\ Truthy(page.ocr.text) /\ Truthy(Strip(page.ocr.text))
    THEN page.ocr.text
    ELSE EmptyText

FinalText(page) ==
    IF Truthy(page.direct.text) /\ Truthy(Strip(page.direct.text))
    THEN page.direct.text
    ELSE OcrText(page)

Document(text, source, page_num) ==
    [page_content |-> text, metadata |-> [source |-> source, page |-> page_num]]

\* Pages of one file, from page n on: <<raised, documents made before the raise>>.
RECURSIVE PagesFrom(_, _, _)
PagesFrom(pdf, pages, n) ==
    IF n > Len(pages) THEN [raised |-> FALSE, docs |-> <<>>]
    ELSE IF pages[n].direct.kind = "raise" THEN [raised |-> TRUE, docs |-> <<>>]
    ELSE LET rest == PagesFrom(pdf, pages, n + 1)
         IN  [raised |-> rest.raised,
              docs |-> <<Document(FinalText(pages[n]), pdf, n)>> \o rest.docs]

\* get_pdf_text(docs) on the files of `dsk`: PdfReader(pdf) raises on a path
\* that is not there and on a file it cannot open, and nothing in the
\* function catches that.
RECURSIVE get_pdf_text(_, _)
get_pdf_text(dsk, docs) ==
    IF docs = <<>> THEN [raised |-> FALSE, docs |-> <<>>, trace |-> <<>>]
    ELSE LET pdf == Head(docs)
             opened == Ev("PdfReader", Basename(pdf))
         IN  IF pdf \notin DOMAIN dsk \/ ~PdfReader(dsk[pdf]).opens
             THEN [raised |-> TRUE, docs |-> <<>>, trace |-> <<opened>>]
             ELSE LET here == PagesFrom(pdf, PdfReader(dsk[pdf]).pages, 1)
                  IN  IF here.raised
                      THEN [raised |-> TRUE, docs |-> <<>>, trace |-> <<opened>>]
                      ELSE LET rest == get_pdf_text(dsk, Tail(docs))
                           IN  [raised |-> rest.raised,
                                docs |-> IF rest.raised THEN <<>> ELSE here.docs \o rest.docs,
                                trace |-> <<opened>> \o rest.trace]

\* get_chunks: CharacterTextSplitter splits on "\n" and drops empty pieces.
\* The texts of the model are single lines, so a page gives one chunk when
\* its text is not blank and none otherwise; the metadata is carried over.
RECURSIVE get_chunks(_)
get_chunks(raw_text_documents) ==
    IF raw_text_documents = <<>> THEN <<>>
    ELSE LET d == Head(raw_text_documents)
             piece == Strip(d.page_content)
         IN  (IF Truthy(piece)
              THEN <<Document(piece, d.metadata.source, d.metadata.page)>>
              ELSE <<>>) \o get_chunks(Tail(raw_text_documents))

\* get_vectorstore without its test for no chunks.
get_vectorstore_unchecked(chunked_text, embedOk) ==
    IF ~embedOk
    THEN [raised |-> TRUE, vectordb |-> None, trace |-> <<Failed("embed", <<>>)>>]
    ELSE [raised |-> FALSE, vectordb |-> [docs |-> chunked_text],
          trace |-> <<Ev("embed", <<>>)>>]

\* get_vectorstore: ValueError on no chunks; FAISS.from_documents re-raises
\* whatever the embedding raises (embedOk is the environment's outcome).
get_vectorstore(chunked_text, embedOk) ==
    IF Len(chunked_text) = 0
    THEN [raised |-> TRUE, vectordb |-> None, trace |-> <<>>]
    ELSE IF ~embedOk
    THEN [raised |-> TRUE, vectordb |-> None, trace |-> <<Failed("embed", <<>>)>>]
    ELSE [raised |-> FALSE, vectordb |-> [docs |-> chunked_text],
          trace |-> <<Ev("embed", <<>>)>>]

(* ------------------------ src/backend/api.py -------------------------- *)
LLMChoices == {"Llama 3.1", "Mixtral", "Phi", "GPT-4"}
Questions == {"q1", "q2"}

\* get_llm sending an identifier it does not know to the first backend.
get_llm_firstForUnknown(llm_choice) ==
    IF llm_choice = "Llama 3.1" THEN "llama3"
    ELSE IF llm_choice = "Mixtral" THEN "mixtral_llm"
    ELSE IF llm_choice = "Phi" THEN "phi"
    ELSE "llama3"

get_llm(llm_choice) ==
    IF llm_choice = "Llama 3.1" THEN "llama3"
    ELSE IF llm_choice = "Mixtral" THEN "mixtral_llm"
    ELSE "phi"

\* What a backend returns for a prompt: a text that depends on the backend
\* and on the prompt (its task and the texts put into it).
Completion(llm, task, about) == [by |-> llm, task |-> task, about |-> about]

\* get_conversation_chain keeping the memory of the chain in place.
get_conversation_chain_keep(vectorstore, llm_choice) ==
    [kind |-> "chain", llm |-> get_llm(llm_choice), retriever |-> vectorstore,
     memory |-> IF conversation = None THEN <<>> ELSE conversation.memory]

\* A fresh ConversationBufferMemory and a chain over the new retriever.
get_conversation_chain(vectorstore, llm_choice) ==
    [kind |-> "chain", llm |-> get_llm(llm_choice),
     retriever |-> vectorstore, memory |-> <<>>]

Response(op, args, status, body) ==
    [op |-> op, args |-> args, status |-> status, body |-> body]

Idle == Response("idle", <<>>, 0, <<>>)

Error(msg, file) == [error |-> msg, file |-> file]

\* uploaded_files_registry.get(pdf, os.path.join(PDF_DIR, pdf)) for each name.
SelectedPaths(reg, pdf_files) ==
    [i \in 1..Len(pdf_files) |->
        IF pdf_files[i] \in DOMAIN reg THEN reg[pdf_files[i]]
        ELSE Join(PDF_DIR, pdf_files[i])]

\* FirstMissing looking at the first path only.
FirstMissing_headOnly(dsk, paths, i) == IF paths[1] \notin DOMAIN dsk THEN 1 ELSE 0

\* The existence loop: index of the first path that is not on disk, 0 if none.
RECURSIVE FirstMissing(_, _, _)
FirstMissing(dsk, paths, i) ==
    IF i > Len(paths) THEN 0
    ELSE IF paths[i] \notin DOMAIN dsk THEN i
    ELSE FirstMissing(dsk, paths, i + 1)

ExistsTrace(paths, n) == [i \in 1..n |-> Ev("exists", Basename(paths[i]))]

(* upload_pdfs: the loop over the files of the request, from file i on.     *)
(* A file whose name does not end in .pdf ends the request with 400; the    *)
(* files before it are already written and registered.                      *)
RECURSIVE UploadFrom(_, _, _, _, _)
UploadFrom(files, i, dsk, reg, saved_files) ==
    IF i > Len(files)
    THEN [status |-> 200,
          body |-> [uploaded |-> [k \in 1..Len(saved_files) |-> Basename(saved_files[k])]],
          disk |-> dsk, registry |-> reg]
    ELSE IF ~IsPdfName(files[i].filename)
    THEN [status |-> 400, body |-> Error("not a PDF", files[i].filename),
          disk |-> dsk, registry |-> reg]
    ELSE LET file_path == Join(PDF_DIR, files[i].filename)
             dsk2 == [p \in DOMAIN dsk \cup {file_path} |->
                         IF p = file_path THEN files[i].content ELSE dsk[p]]
             reg2 == [n \in DOMAIN reg \cup {files[i].filename} |->
                         IF n = files[i].filename THEN file_path ELSE reg[n]]
         IN  UploadFrom(files, i + 1, dsk2, reg2, Append(saved_files, file_path))

upload_pdfs_result(files) == UploadFrom(files, 1, disk, uploaded_files_registry, <<>>)

FilenamesOf(files) == [i \in 1..Len(files) |-> files[i].filename]

upload_pdfs(files) ==
    LET r == upload_pdfs_result(files)
    IN  /\ last = Idle
        /\ disk' = r.disk
        /\ uploaded_files_registry' = r.registry
        /\ last' = Response("upload_pdfs", [files |-> FilenamesOf(files)], r.status, r.body)
        /\ trace' = <<>>
        /\ UNCHANGED <<conversation, builds>>

(* process_pdfs: 404 on the first missing file, else extraction, chunking,  *)
(* indexing and a new chain; any exception gives 500 and assigns nothing.   *)
\* StartBuild discarding the chain in place as soon as a build begins.
StartBuild_discard(conv) == None

\* StartBuild keeping the chain in place and emptying its history.
StartBuild_clearHistory(conv) ==
    IF conv = None THEN None ELSE [conv EXCEPT !.memory = <<>>]

\* The chain in place once a build has begun: the handler assigns
\* app.state.conversation only after the new chain is made.
StartBuild(conv) == conv

process_pdfs_result(llm_choice, pdf_files, embedOk) ==
    LET all_selected_files == SelectedPaths(uploaded_files_registry, pdf_files)
        miss == FirstMissing(disk, all_selected_files, 1)
        started == StartBuild(conversation)
    IN  IF miss > 0
        THEN [status |-> 404,
              body |-> Error("File not found", Basename(all_selected_files[miss])),
              trace |-> ExistsTrace(all_selected_files, miss),
              conversation |-> started]
        ELSE LET checked == ExistsTrace(all_selected_files, Len(all_selected_files))
                 raw_text == get_pdf_text(disk, all_selected_files)
             IN  IF raw_text.raised
                 THEN [status |-> 500, body |-> Error("Error processing PDFs", <<>>),
                       trace |-> checked \o raw_text.trace,
                       conversation |-> started]
                 ELSE LET text_chunks == get_chunks(raw_text.docs)
                          split == raw_text.trace \o <<Ev("split", <<>>)>>
                          vs == get_vectorstore(text_chunks, embedOk)
                      IN  IF vs.raised
                          THEN [status |-> 500,
                                body |-> Error("Error processing PDFs", <<>>),
                                trace |-> checked \o split \o vs.trace,
                                conversation |-> started]
                          ELSE [status |-> 200,
                                body |-> [status |-> "PDFs processed successfully",
                                          llm |-> llm_choice],
                                trace |-> checked \o split \o vs.trace,
                                conversation |->
                                    get_conversation_chain(vs.vectordb, llm_choice)]

BuildsAfter(b) == IF b = "none" THEN "one" ELSE "many"

process_pdfs(llm_choice, pdf_files, embedOk) ==
    LET r == process_pdfs_result(llm_choice, pdf_files, embedOk)
    IN  /\ last = Idle
        /\ conversation' = r.conversation
        /\ builds' = (IF r.status = 200 THEN BuildsAfter(builds) ELSE builds)
        /\ last' = Response("process_pdfs",
                            [llm_choice |-> llm_choice, pdf_files |-> pdf_files],
                            r.status, r.body)
        /\ trace' = r.trace
        /\ UNCHANGED <<disk, uploaded_files_registry>>

(* ask_question: 400 without a chain; else the chain is called.  The chain  *)
(* (ConversationalRetrievalChain with a ConversationBufferMemory) loads the *)
(* history, condenses the question with its LLM when the history is not     *)
(* empty, retrieves, answers with its LLM and saves the turn; the           *)
(* chat_history it returns is the memory's own list, so it shows the turn   *)
(* just saved.  failAt is the LLM call of this request that raises (0: no   *)
(* call raises); rank is the retriever's ranking.                           *)
Rankings(n) ==
    {r \in [1..Min(RetrieverK, n) -> 1..n] :
        \A i, j \in DOMAIN r : i # j => r[i] # r[j]}

\* Citation with the whole chunk text as its snippet.
Citation_unclipped(doc) ==
    [page |-> doc.metadata.page,
     file |-> Basename(doc.metadata.source),
     snippet |-> doc.page_content]

Citation(doc) ==
    [page |-> doc.metadata.page,
     file |-> Basename(doc.metadata.source),
     snippet |-> Prefix(doc.page_content, SnippetLen)]

\* The retriever's call, with the source_documents it gave, in its order.
Retrieved(source_docs) == <<"retrieve", <<>>, source_docs>>

Turn(question, answer) == [question |-> question, answer |-> answer]

\* The memory after the chain saved the turn.
save_context(memory, question, answer) == Append(memory, Turn(question, answer))

\* The backend the chain's calls go to.
ChainLLM(chain, llm_choice) == chain.llm

\* ReturnedHistory as the history loaded before the turn was saved.
ReturnedHistory_stale(before, after) == before

\* The chat_history of the chain's result.
ReturnedHistory(before, after) == after

\* NotReady without its test: the guard of ask_question left out.
NotReady_never(conv) == FALSE

NotReady(conv) == conv = None

\* Turns held by the current chain's memory (none without a chain).
Turns(conv) == IF conv = None THEN 0 ELSE Len(conv.memory)

ask_question_result(question, llm_choice, failAt, rank) ==
    IF NotReady(conversation)
    THEN [status |-> 400, body |-> Error("Process PDFs first", <<>>),
          trace |-> <<>>, conversation |-> conversation]
    ELSE IF conversation = None
    THEN \* calling a chain that is not there raises inside the try block
         [status |-> 500, body |-> Error("Error processing question", <<>>),
          trace |-> <<>>, conversation |-> conversation]
    ELSE LET chain == conversation
             llm == ChainLLM(chain, llm_choice)
             chat_history == chain.memory
             condense == chat_history # <<>>
             t1 == IF condense THEN <<Ev("llm", <<llm>>)>> ELSE <<>>
             source_docs == [i \in DOMAIN rank |-> chain.retriever.docs[rank[i]]]
             t2 == t1 \o <<Retrieved(source_docs)>>
             answer == Completion(llm, "answer", <<question>>)
             memory2 == save_context(chat_history, question, answer)
         IN  IF condense /\ failAt = 1
             THEN [status |-> 500, body |-> Error("Error processing question", <<>>),
                   trace |-> <<Failed("llm", <<llm>>)>>, conversation |-> conversation]
             ELSE IF failAt = Len(t1) + 1
             THEN [status |-> 500, body |-> Error("Error processing question", <<>>),
                   trace |-> t2 \o <<Failed("llm", <<llm>>)>>,
                   conversation |-> conversation]
             ELSE [status |-> 200,
                   body |-> [answer |-> answer,
                             chat_history |-> ReturnedHistory(chat_history, memory2),
                             sources |-> [i \in DOMAIN source_docs |->
                                             Citation(source_docs[i])]],
                   trace |-> t2 \o <<Ev("llm", <<llm>>)>>,
                   conversation |-> [chain EXCEPT !.memory = memory2]]

ask_question(question, llm_choice, failAt, rank) ==
    LET r == ask_question_result(question, llm_choice, failAt, rank)
    IN  /\ last = Idle
        /\ Turns(conversation) < MaxTurns
        /\ conversation' = r.conversation
        /\ last' = Response("ask_question",
                            [question |-> question, llm_choice |-> llm_choice],
                            r.status, r.body)
        /\ trace' = r.trace
        /\ UNCHANGED <<disk, uploaded_files_registry, builds>>

(* compare_reports: 400 unless two identifiers, 404 on the first missing    *)
(* file, else one summary per identifier (summaries[pdf] = summary, so a    *)
(* repeated identifier overwrites its entry) and one comparison.            *)
TextIds(chunks) == [k \in 1..Len(chunks) |-> chunks[k].page_content.id]

\* SummaryKey storing every summary under the first identifier.
SummaryKey_first(pdf_files, i) == pdf_files[1]

\* The key a summary is stored under: summaries[pdf] = summary.
SummaryKey(pdf_files, i) == pdf_files[i]

\* The loop over the identifiers, from i on, with the summaries made so far.
RECURSIVE SummariesFrom(_, _, _, _, _, _)
SummariesFrom(llm, pdf_files, file_paths, i, failAt, summaries) ==
    IF i > Len(pdf_files)
    THEN [raised |-> FALSE, summaries |-> summaries, trace |-> <<>>]
    ELSE LET raw_text == get_pdf_text(disk, <<file_paths[i]>>)
         IN  IF raw_text.raised
             THEN [raised |-> TRUE, summaries |-> summaries, trace |-> raw_text.trace]
             ELSE LET text_chunks == get_chunks(raw_text.docs)
                      here == raw_text.trace \o <<Ev("split", <<>>)>>
                      summary == Completion(llm, "summary", TextIds(text_chunks))
                      key == SummaryKey(pdf_files, i)
                      summaries2 == [n \in DOMAIN summaries \cup {key} |->
                                        IF n = key THEN summary ELSE summaries[n]]
                  IN  IF failAt = i
                      THEN [raised |-> TRUE, summaries |-> summaries,
                            trace |-> here \o <<Failed("llm", <<llm>>)>>]
                      ELSE LET rest == SummariesFrom(llm, pdf_files, file_paths, i + 1,
                                                     failAt, summaries2)
                           IN  [rest EXCEPT !.trace = here \o <<Ev("llm", <<llm>>)>>
                                                      \o rest.trace]

\* WrongCount rejecting only requests with fewer than two identifiers.
WrongCount_under(pdf_files) == Len(pdf_files) < 2

WrongCount(pdf_files) == Len(pdf_files) # 2

compare_reports_result(llm_choice, pdf_files, failAt) ==
    IF WrongCount(pdf_files)
    THEN [status |-> 400, body |-> Error("Please select exactly 2 PDFs", <<>>),
          trace |-> <<>>]
    ELSE LET file_paths == SelectedPaths(uploaded_files_registry, pdf_files)
             miss == FirstMissing(disk, file_paths, 1)
         IN  IF miss > 0
             THEN [status |-> 404,
                   body |-> Error("File not found", Basename(file_paths[miss])),
                   trace |-> ExistsTrace(file_paths, miss)]
             ELSE LET checked == ExistsTrace(file_paths, Len(file_paths))
                      llm == get_llm(llm_choice)
                      loop == SummariesFrom(llm, pdf_files, file_paths, 1, failAt, <<>>)
                      summaries == loop.summaries
                  IN  IF loop.raised \/ \E k \in 1..2 : pdf_files[k] \notin DOMAIN summaries
                      THEN \* an exception of the loop, or a KeyError of the prompt
                           [status |-> 500,
                            body |-> Error("Error comparing reports", <<>>),
                             trace |-> checked \o loop.trace]
                      ELSE IF failAt = Len(pdf_files) + 1
                      THEN [status |-> 500,
                            body |-> Error("Error comparing reports", <<>>),
                            trace |-> checked \o loop.trace \o <<Failed("llm", <<llm>>)>>]
                      ELSE [status |-> 200,
                            body |-> [comparison |->
                                         Completion(llm, "comparison",
                                                    summaries[pdf_files[1]].about
                                                    \o summaries[pdf_files[2]].about),
                                      summaries |-> summaries],
                            trace |-> checked \o loop.trace \o <<Ev("llm", <<llm>>)>>]

\* compare_reports dropping the conversation chain.
compare_reports_forgets(llm_choice, pdf_files, failAt) ==
    LET r == compare_reports_result(llm_choice, pdf_files, failAt)
    IN  /\ last = Idle
        /\ last' = Response("compare_reports",
                            [llm_choice |-> llm_choice, pdf_files |-> pdf_files],
                            r.status, r.body)
        /\ trace' = r.trace
        /\ conversation' = None
        /\ UNCHANGED <<disk, uploaded_files_registry, builds>>

compare_reports(llm_choice, pdf_files, failAt) ==
    LET r == compare_reports_result(llm_choice, pdf_files, failAt)
    IN  /\ last = Idle
        /\ last' = Response("compare_reports",
                            [llm_choice |-> llm_choice, pdf_files |-> pdf_files],
                            r.status, r.body)
        /\ trace' = r.trace
        /\ UNCHANGED <<disk, uploaded_files_registry, conversation, builds>>

\* The response leaves the server, which is then ready for the next request.
send_response ==
    /\ last # Idle
    /\ last' = Idle
    /\ trace' = <<>>
    /\ UNCHANGED <<disk, uploaded_files_registry, conversation, builds>>

(* ----------------------- src/frontend/client.py ----------------------- *)
(* request_with_retry(method, url, max_retries=3, **kwargs), for the        *)
(* frontend's ask_question.  The frame holds the loop variable `attempt`;   *)
(* pc is "call" before method(url), "await" while the backend holds the     *)
(* request, "sleep" before time.sleep(2) and "returned" after the return.   *)
(* log lists the attempts made (with their outcome) and the waits.          *)
DefaultMaxRetries == 3
RetrySleep == 2

ClientIdle ==
    [pc |-> "idle", max_retries |-> 0, attempt |-> 0, request |-> <<>>,
     returned |-> None, log |-> <<>>, turns0 |-> 0]

AttemptEv(ok) == [ev |-> "attempt", ok |-> ok]
SleepEv(secs) == [ev |-> "sleep", secs |-> secs]

\* LastAttempt one attempt late.
LastAttempt_late(attempt, max_retries) == attempt = max_retries

\* if attempt == max_retries - 1
LastAttempt(attempt, max_retries) == attempt = max_retries - 1

\* raise_for_status() raises HTTPError for a 4xx or 5xx response.
RaisesForStatus(status) == status >= 400

\* The frame after the except clause ran for a failed attempt.
Except(c) ==
    IF LastAttempt(c.attempt, c.max_retries)
    THEN [c EXCEPT !.pc = "returned", !.returned = None,
                   !.log = Append(@, AttemptEv(FALSE))]
    ELSE [c EXCEPT !.pc = "sleep", !.log = Append(@, AttemptEv(FALSE))]

\* The call begins; with no attempt to make, the loop is skipped and the
\* function returns None.
request_with_retry(max_retries, question, llm_choice) ==
    /\ client.pc \in {"idle", "returned"}
    /\ client' = [pc |-> IF max_retries > 0 THEN "call" ELSE "returned",
                  max_retries |-> max_retries, attempt |-> 0,
                  request |-> [question |-> question, llm_choice |-> llm_choice],
                  returned |-> None, log |-> <<>>,
                  turns0 |-> Turns(conversation)]
    /\ UNCHANGED <<disk, uploaded_files_registry, conversation, builds, last, trace>>

\* The frontend's ask_question(question, llm_choice): the default max_retries.
client_ask_question(question, llm_choice) ==
    request_with_retry(DefaultMaxRetries, question, llm_choice)

\* method(url, json=...) reaches the backend, which runs its handler.
Send ==
    /\ client.pc = "call"
    /\ \E failAt \in 0..2 :
          \E rank \in Rankings(IF conversation = None THEN 0
                               ELSE Len(conversation.retriever.docs)) :
              ask_question(client.request.question, client.request.llm_choice,
                           failAt, rank)
    /\ client' = [client EXCEPT !.pc = "await"]

\* method(url, json=...) raises before the request reaches the backend.
SendFails ==
    /\ client.pc = "call"
    /\ client' = Except(client)
    /\ UNCHANGED <<disk, uploaded_files_registry, conversation, builds, last, trace>>

\* The response comes back, or the connection breaks while it does (lost):
\* method raises then, as raise_for_status() does for an error status.
Receive ==
    /\ client.pc = "await"
    /\ send_response
    /\ \E lost \in BOOLEAN :
          client' = IF lost \/ RaisesForStatus(last.status)
                    THEN Except(client)
                    ELSE [client EXCEPT !.pc = "returned", !.returned = last.body,
                                        !.log = Append(@, AttemptEv(TRUE))]

\* time.sleep(2), then the next round of the loop (or its end).
Sleep ==
    /\ client.pc = "sleep"
    /\ client' = [client EXCEPT
                    !.attempt = @ + 1,
                    !.pc = IF client.attempt + 1 < client.max_retries
                           THEN "call" ELSE "returned",
                    !.log = Append(@, SleepEv(RetrySleep))]
    /\ UNCHANGED <<disk, uploaded_files_registry, conversation, builds, last, trace>>

(* ------------------------- the specification -------------------------- *)
\* The files a client uploads: a.pdf as a report, a blank scan or corrupt
\* bytes, B.PDF as a scanned report, and a text file.
UploadFiles ==
    {[filename |-> NameA, content |-> c] : c \in {Corrupt, Blank, Report}}
    \cup {[filename |-> NameB, content |-> Scanned],
          [filename |-> NameT, content |-> Corrupt]}

Init ==
    /\ disk = <<>>
    /\ uploaded_files_registry = <<>>
    /\ conversation = None
    /\ builds = "none"
    /\ last = Idle
    /\ trace = <<>>
    /\ client = ClientIdle

\* The requests of a session (Spec): files are uploaded one per request and
\* compare_reports, which changes no state, is drawn with one backend and no
\* failing call.  SpecFiles draws every upload batch and every comparison,
\* over the files alone.
SessionChoices == {"Mixtral", "GPT-4"}

UploadOne ==
    /\ \E file \in UploadFiles : upload_pdfs(<<file>>)
    /\ UNCHANGED client

Upload ==
    /\ \E files \in SeqsUpTo(UploadFiles, MaxBatch) : upload_pdfs(files)
    /\ UNCHANGED client

Process ==
    /\ \E llm_choice \in SessionChoices, pdf_files \in SeqsUpTo(PdfIds, MaxBuildFiles),
          embedOk \in BOOLEAN :
           process_pdfs(llm_choice, pdf_files, embedOk)
    /\ UNCHANGED client

Ask ==
    /\ \E question \in Questions, llm_choice \in SessionChoices, failAt \in 0..2 :
           \E rank \in Rankings(IF conversation = None THEN 0
                                ELSE Len(conversation.retriever.docs)) :
               ask_question(question, llm_choice, failAt, rank)
    /\ UNCHANGED client

Compare ==
    /\ \E pdf_files \in SeqsUpTo(PdfIds, MaxCompareFiles) :
           compare_reports("Phi", pdf_files, 0)
    /\ UNCHANGED client

CompareAll ==
    /\ \E llm_choice \in LLMChoices, pdf_files \in SeqsUpTo(PdfIds, MaxCompareFiles),
          failAt \in 0..3 :
           compare_reports(llm_choice, pdf_files, failAt)
    /\ UNCHANGED client

Deliver ==
    /\ send_response
    /\ UNCHANGED client

Next == UploadOne \/ Process \/ Ask \/ Compare \/ Deliver

Spec == Init /\ [][Next]_vars

NextFiles == Upload \/ CompareAll \/ Deliver

SpecFiles == Init /\ [][NextFiles]_vars

(* get_pdf_text on its own (SpecExtract): the stored files are a.pdf and    *)
(* B.PDF, each absent or holding any of the contents, registered as         *)
(* upload_pdfs registers them; the function is applied to lists of stored   *)
(* files, as its callers do after their existence test.                     *)
StoredPaths == {Join(PDF_DIR, n) : n \in PdfIds}

InitExtract ==
    /\ \E stored \in SUBSET StoredPaths : disk \in [stored -> Contents]
    /\ uploaded_files_registry =
          [n \in {Basename(p) : p \in DOMAIN disk} |-> Join(PDF_DIR, n)]
    /\ conversation = None
    /\ builds = "none"
    /\ last = Idle
    /\ trace = <<>>
    /\ client = ClientIdle

Extract ==
    \E docs \in SeqsUpTo(DOMAIN disk, MaxBuildFiles) :
        LET r == get_pdf_text(disk, docs)
        IN  /\ last = Idle
            /\ last' = Response("get_pdf_text", [docs |-> docs], 0,
                                [raised |-> r.raised, docs |-> r.docs])
            /\ trace' = r.trace
            /\ UNCHANGED <<disk, uploaded_files_registry, conversation, builds, client>>

NextExtract == Extract \/ Deliver

SpecExtract == InitExtract /\ [][NextExtract]_vars

(* Builds and comparisons with every backend identifier (SpecBackends).     *)
ProcessAll ==
    /\ \E llm_choice \in LLMChoices, pdf_files \in SeqsUpTo(PdfIds, MaxBuildFiles),
          embedOk \in BOOLEAN :
           process_pdfs(llm_choice, pdf_files, embedOk)
    /\ UNCHANGED client

NextBackends == UploadOne \/ ProcessAll \/ CompareAll \/ Deliver

SpecBackends == Init /\ [][NextBackends]_vars

(* A frontend session (SpecClient): a.pdf is uploaded and built, and        *)
(* questions go through request_with_retry, called by the frontend's        *)
(* ask_question (Submit) or with a smaller max_retries (Call).  A response  *)
(* to the client's request is taken by Receive, any other by DeliverOther.  *)
ClientUpload ==
    /\ upload_pdfs(<<[filename |-> NameA, content |-> Report]>>)
    /\ UNCHANGED client

ClientProcess ==
    /\ process_pdfs("Mixtral", <<NameA>>, TRUE)
    /\ UNCHANGED client

Submit == \E question \in Questions : client_ask_question(question, "Phi")

Call ==
    \E max_retries \in 0..(DefaultMaxRetries - 1), question \in Questions :
        request_with_retry(max_retries, question, "Phi")

DeliverOther ==
    /\ client.pc # "await"
    /\ Deliver

NextClient ==
    \/ ClientUpload \/ ClientProcess \/ Submit \/ Call
    \/ Send \/ SendFails \/ Receive \/ Sleep \/ DeliverOther

SpecClient == Init /\ [][NextClient]_vars

\* The client runs on: a pending method call ends (the backend answers or the
\* call raises), and a sleep ends.
SpecClientFair ==
    SpecClient /\ WF_vars(Send \/ SendFails) /\ WF_vars(Receive) /\ WF_vars(Sleep)

(* ============================== claims ================================ *)
IsAnswer(r) == r.op = "ask_question" /\ r.status = 200
IsBuilt(r) == r.op = "process_pdfs" /\ r.status = 200
Kinds(t) == {t[i][1] : i \in DOMAIN t}
CalledLLMs(t) == {t[i][2][1] : i \in {j \in DOMAIN t : t[j][1] = "llm"}}

\* C1: while no build has ever succeeded, a question gets the "not ready"
\* error (400, Process PDFs first), no retriever or LLM call is made and no
\* chain exists, whatever uploads, comparisons and failed builds came before.
C1_AskBeforeBuildNotReady ==
    (last.op = "ask_question" /\ builds = "none") =>
        /\ last.status = 400
        /\ last.body = Error("Process PDFs first", <<>>)
        /\ trace = <<>>
        /\ conversation = None

\* A question asked before any successful build, with documents uploaded.
C1_Witness ==
    /\ last.op = "ask_question"
    /\ builds = "none"
    /\ DOMAIN disk # {}

\* C2 as claimed: a build that has begun and has not completed successfully
\* leaves the orchestrator Uninitialized (the old chain is discarded).
C2_BuildStartUninitializes ==
    (last.op = "process_pdfs" /\ last.status # 200) => conversation = None

\* C2 as amended: a build replaces the chain only when it succeeds, and then
\* by a chain over the chunks of the requested files with an empty history;
\* a build that fails leaves the chain in place exactly as it was.
C2_BuildReplacesOnlyOnSuccess ==
    [][last'.op = "process_pdfs" =>
         IF last'.status = 200
         THEN /\ conversation' # None
              /\ conversation'.memory = <<>>
              /\ conversation'.retriever.docs # <<>>
              /\ \A i \in DOMAIN conversation'.retriever.docs :
                    Basename(conversation'.retriever.docs[i].metadata.source)
                        \in {last'.args.pdf_files[k] : k \in DOMAIN last'.args.pdf_files}
         ELSE conversation' = conversation]_vars

\* A build that failed while a conversation with turns was in place.
C2_Witness ==
    /\ last.op = "process_pdfs"
    /\ last.status # 200
    /\ conversation # None
    /\ conversation.memory # <<>>

\* C3: the index and the history in use always come from one build: a build
\* that succeeds installs its index with an empty history, the index never
\* changes under a history that is kept, and a question is answered from the
\* index and the history of the one chain in place.
C3_IndexAndHistoryOfOneBuild ==
    [][/\ IsBuilt(last') => conversation'.memory = <<>>
       /\ (conversation # None /\ conversation' # None
           /\ conversation'.retriever # conversation.retriever)
              => conversation'.memory = <<>>
       /\ (conversation # None /\ conversation' # None
           /\ conversation'.memory # <<>>)
              => conversation'.retriever = conversation.retriever
       /\ IsAnswer(last') =>
              /\ conversation # None
              /\ conversation'.retriever = conversation.retriever
              /\ \A i \in DOMAIN last'.body.sources :
                    \E k \in DOMAIN conversation.retriever.docs :
                        last'.body.sources[i] = Citation(conversation.retriever.docs[k])
              /\ SubSeq(last'.body.chat_history, 1, Len(conversation.memory))
                    = conversation.memory]_vars

\* A question answered after the index was rebuilt.
C3_Witness ==
    /\ IsAnswer(last)
    /\ builds = "many"

\* C4 as claimed: a question is answered by the backend its own llm_choice
\* names.
C4_BackendPerQuestion ==
    IsAnswer(last) =>
        /\ last.body.answer.by = get_llm(last.args.llm_choice)
        /\ CalledLLMs(trace) = {get_llm(last.args.llm_choice)}

\* C5: an answered question appends exactly its (question, answer) turn to
\* the history and returns the whole updated history, which is not empty; a
\* successful build starts the history empty; nothing else changes it.
C5_HistoryIsTheTurnsAsked ==
    [][/\ IsAnswer(last') =>
              /\ conversation'.memory =
                    Append(conversation.memory,
                           Turn(last'.args.question, last'.body.answer))
              /\ last'.body.chat_history = conversation'.memory
              /\ Len(last'.body.chat_history) >= 1
       /\ IsBuilt(last') => conversation'.memory = <<>>
       /\ (~IsAnswer(last') /\ ~IsBuilt(last')) => conversation' = conversation]_vars

\* The second answered question of a conversation, after a different first one.
C5_Witness ==
    /\ IsAnswer(last)
    /\ Len(last.body.chat_history) = 2
    /\ last.body.chat_history[1].question # last.body.chat_history[2].question
    /\ conversation.memory = last.body.chat_history
\* Requests on files: the paths a request names, whether one of them is not
\* on disk, and the name of the first that is not.
PathsOf(pdf_files) == SelectedPaths(uploaded_files_registry, pdf_files)
Missing(pdf_files) == \E i \in DOMAIN pdf_files : PathsOf(pdf_files)[i] \notin DOMAIN disk
FirstMissingName(pdf_files) ==
    LET i == CHOOSE k \in DOMAIN pdf_files :
                 /\ PathsOf(pdf_files)[k] \notin DOMAIN disk
                 /\ \A j \in 1..(k - 1) : PathsOf(pdf_files)[j] \in DOMAIN disk
    IN  pdf_files[i]
Raised(t) == \E i \in DOMAIN t : Len(t[i][2]) > 0 /\ t[i][2][Len(t[i][2])] = "raised"

\* C6: compare_reports with a number of identifiers other than two answers
\* with the input-validation error and has made no call at all: no lookup,
\* no extraction, no LLM call, no summary.
C6_CompareNeedsTwo ==
    (last.op = "compare_reports" /\ Len(last.args.pdf_files) # 2) =>
        /\ last.status = 400
        /\ last.body = Error("Please select exactly 2 PDFs", <<>>)
        /\ trace = <<>>

\* Three identifiers of files that are all on disk, rejected.
C6_Witness ==
    /\ last.op = "compare_reports"
    /\ Len(last.args.pdf_files) = 3
    /\ ~Missing(last.args.pdf_files)
    /\ \E i, j \in 1..3 : last.args.pdf_files[i] # last.args.pdf_files[j]

\* C7 as claimed: process_pdfs and compare_reports answer file-not-found,
\* having done no more than look files up, whenever a named file is missing.
C7_MissingFileAborts ==
    (last.op \in {"process_pdfs", "compare_reports"} /\ Missing(last.args.pdf_files)) =>
        /\ last.status = 404
        /\ Kinds(trace) \subseteq {"exists"}

\* C7 as amended: process_pdfs, and compare_reports given exactly two
\* identifiers, answer file-not-found for the first missing file, having done
\* no more than look files up; compare_reports given another number of
\* identifiers answers with the input-validation error instead.
C7_MissingFileAbortsAfterCount ==
    /\ ((last.op = "process_pdfs"
          \/ (last.op = "compare_reports" /\ Len(last.args.pdf_files) = 2))
        /\ Missing(last.args.pdf_files)) =>
            /\ last.status = 404
            /\ last.body = Error("File not found", FirstMissingName(last.args.pdf_files))
            /\ Kinds(trace) = {"exists"}
    /\ (last.op = "compare_reports" /\ Len(last.args.pdf_files) # 2
        /\ Missing(last.args.pdf_files)) => last.status = 400

\* A build of two files of which the first is on disk and the second is not.
C7_Witness ==
    /\ last.op = "process_pdfs"
    /\ Len(last.args.pdf_files) = 2
    /\ PathsOf(last.args.pdf_files)[1] \in DOMAIN disk
    /\ PathsOf(last.args.pdf_files)[2] \notin DOMAIN disk

\* C8 as claimed: an upload rejected for a file that is no PDF leaves the
\* registry and the stored files as they were.
C8_RejectedUploadChangesNothing ==
    [][(last'.op = "upload_pdfs" /\ last'.status = 400) =>
          (disk' = disk /\ uploaded_files_registry' = uploaded_files_registry)]_vars

\* C9: a build whose files give no chunk fails with the build error before
\* anything is embedded and leaves the chain as it was, so no chain ever has
\* an index of zero chunks.
ZeroChunks(pdf_files) ==
    LET raw_text == get_pdf_text(disk, PathsOf(pdf_files))
    IN  /\ ~Missing(pdf_files)
        /\ ~raw_text.raised
        /\ get_chunks(raw_text.docs) = <<>>

C9_NoIndexOfZeroChunks ==
    [][/\ (last'.op = "process_pdfs" /\ ZeroChunks(last'.args.pdf_files)) =>
              /\ last'.status = 500
              /\ last'.body = Error("Error processing PDFs", <<>>)
              /\ "embed" \notin Kinds(trace')
              /\ conversation' = conversation
       /\ conversation' # None => conversation'.retriever.docs # <<>>]_vars

\* A build over a blank scan, after an earlier build succeeded.
C9_Witness ==
    /\ last.op = "process_pdfs"
    /\ ZeroChunks(last.args.pdf_files)
    /\ builds # "none"

RECURSIVE PagesOf(_)
PagesOf(docs) ==
    IF docs = <<>> THEN <<>>
    ELSE LET pages == PdfReader(disk[Head(docs)]).pages
         IN  [n \in 1..Len(pages) |-> <<Head(docs), n, pages[n]>>] \o PagesOf(Tail(docs))

\* Obtaining the text of a page fails: extract_text() raises, or it gives
\* nothing and the OCR route raises.
PageFails(page) ==
    \/ page.direct.kind = "raise"
    \/ (~Truthy(Strip(page.direct.text)) /\ page.ocr.kind = "raise")

\* C11 as claimed: get_pdf_text on files PdfReader opens returns one Page
\* Document per page of every file, in order, whatever happens on single
\* pages; the Document of a page whose text could not be obtained (direct
\* extraction or OCR failed) has the empty text.
C11_PageFailureDegrades ==
    (/\ last.op = "get_pdf_text"
     /\ \A i \in DOMAIN last.args.docs : PdfReader(disk[last.args.docs[i]]).opens) =>
        LET pages == PagesOf(last.args.docs)
        IN  /\ ~last.body.raised
            /\ Len(last.body.docs) = Len(pages)
            /\ \A k \in DOMAIN pages :
                  /\ last.body.docs[k].metadata = [source |-> pages[k][1], page |-> pages[k][2]]
                  /\ PageFails(pages[k][3]) => last.body.docs[k].page_content = EmptyText

Attempts(log) == {i \in DOMAIN log : log[i].ev = "attempt"}
Succeeded(log) == {i \in DOMAIN log : log[i].ev = "attempt" /\ log[i].ok}
IsRaised(e) == Len(e[2]) > 0 /\ e[2][Len(e[2])] = "raised"

\* The state part of C12: what request_with_retry has done so far.
C12_RetryLog ==
    LET log == client.log
        n == Cardinality(Attempts(log))
    IN  /\ n <= client.max_retries
        /\ \A i \in DOMAIN log :
              IF i % 2 = 1 THEN log[i].ev = "attempt" ELSE log[i] = SleepEv(RetrySleep)
        /\ \A i \in Succeeded(log) :
              i = Len(log) /\ client.pc = "returned" /\ client.returned # None
        /\ client.pc \in {"call", "await"} =>
              client.attempt < client.max_retries /\ Len(log) = 2 * client.attempt
        /\ client.pc = "returned" =>
              IF Succeeded(log) # {}
              THEN client.returned # None
              ELSE /\ client.returned = None
                   /\ n = client.max_retries
                   /\ Len(log) = IF n = 0 THEN 0 ELSE 2 * n - 1
        /\ \A i \in 1..(Len(trace) - 1) : ~IsRaised(trace[i])
        /\ Cardinality({i \in DOMAIN trace : trace[i][1] = "retrieve"}) <= 1

\* C12: request_with_retry makes at most max_retries attempts, with one wait
\* of 2 seconds between consecutive attempts and none after the last; it
\* returns the body of the first attempt that succeeds and makes no attempt
\* after it, returns None once max_retries attempts have failed, and every
\* call made ends by returning; a backend handler stops at the first call
\* that raises and repeats nothing.
C12_BoundedRetry ==
    /\ []C12_RetryLog
    /\ [][(client.pc = "await" /\ client'.pc = "returned" /\ client'.returned # None)
            => (client'.returned = last.body /\ last.status = 200)]_vars
    /\ (client.pc = "call" ~> client.pc = "returned")

\* A call with the default max_retries that returned the body of its third
\* attempt, after two failed ones.
C12_Witness ==
    /\ client.pc = "returned"
    /\ client.max_retries = DefaultMaxRetries
    /\ client.returned # None
    /\ Len(client.log) = 5

\* C17 as claimed: a question submitted once through the frontend has added
\* at most one turn to the conversation history when the call returns.
C17_OneTurnPerSubmit ==
    (client.pc = "returned" /\ client.max_retries = DefaultMaxRetries) =>
        Turns(conversation) - client.turns0 <= 1

\* The backend an identifier names: the three named ones, Phi for any other.
BackendOf(llm_choice) ==
    CASE llm_choice = "Llama 3.1" -> "llama3"
      [] llm_choice = "Mixtral" -> "mixtral_llm"
      [] llm_choice = "Phi" -> "phi"
      [] OTHER -> "phi"

\* C13: a build that succeeds makes its chain with, and a comparison that
\* succeeds is written by, the backend the identifier names, Phi for an
\* identifier that is none of the three; the three named backends differ;
\* and a build or comparison fails with 500 only when extraction, chunk
\* count, embedding or an LLM call failed, never for its identifier.
C13_BackendResolution ==
    /\ Cardinality({BackendOf(c) : c \in {"Llama 3.1", "Mixtral", "Phi"}}) = 3
    /\ IsBuilt(last) => conversation.llm = BackendOf(last.args.llm_choice)
    /\ (last.op = "compare_reports" /\ last.status = 200) =>
          /\ last.body.comparison.by = BackendOf(last.args.llm_choice)
          /\ \A n \in DOMAIN last.body.summaries :
                last.body.summaries[n].by = BackendOf(last.args.llm_choice)
          /\ CalledLLMs(trace) = {BackendOf(last.args.llm_choice)}
    /\ (last.op \in {"process_pdfs", "compare_reports"} /\ last.status = 500) =>
          \/ get_pdf_text(disk, PathsOf(last.args.pdf_files)).raised
          \/ Raised(trace)
          \/ (last.op = "process_pdfs" /\ ZeroChunks(last.args.pdf_files))

\* A build that succeeded with an identifier that is none of the three.
C13_Witness ==
    /\ IsBuilt(last)
    /\ last.args.llm_choice \notin {"Llama 3.1", "Mixtral", "Phi"}
    /\ conversation.llm = "phi"

\* The source_documents the retriever gave while the request was served.
RetrievedDocs(t) == t[CHOOSE i \in DOMAIN t : t[i][1] = "retrieve"][3]

\* C14: an answered question returns one citation per retrieved chunk, in
\* the order of the retrieval result; each has the file name and the page
\* of its chunk and, as snippet, the first 200 characters of the chunk text
\* (the whole text when it has no more than 200).
C14_CitationPerRetrievedChunk ==
    IsAnswer(last) =>
        LET got == RetrievedDocs(trace)
            sources == last.body.sources
        IN  /\ Len(sources) = Len(got)
            /\ Len(got) >= 1
            /\ \A i \in DOMAIN got :
                  /\ sources[i].file = Basename(got[i].metadata.source)
                  /\ sources[i].page = got[i].metadata.page
                  /\ sources[i].snippet.id = got[i].page_content.id
                  /\ sources[i].snippet.len = Min(SnippetLen, got[i].page_content.len)

\* An answer citing two chunks of different files, retrieved against the
\* order of the index, one clipped to 200 characters and one shorter.
C14_Witness ==
    /\ IsAnswer(last)
    /\ Len(last.body.sources) = 2
    /\ last.body.sources[1].file = NameB
    /\ last.body.sources[1].snippet.len < SnippetLen
    /\ last.body.sources[2].file = NameA
    /\ last.body.sources[2].snippet.len = SnippetLen
    /\ conversation.retriever.docs[1].metadata.source = Join(PDF_DIR, NameA)
    /\ conversation.retriever.docs[1].page_content.len > SnippetLen

\* A question asked now and asked after the step gets the same response and
\* leaves the same chain, whatever the question and the environment's part.
SameAnswers ==
    \A question \in Questions, llm_choice \in SessionChoices, failAt \in 0..2 :
        \A rank \in Rankings(IF conversation = None THEN 0
                             ELSE Len(conversation.retriever.docs)) :
            ask_question_result(question, llm_choice, failAt, rank)'
                = ask_question_result(question, llm_choice, failAt, rank)

\* C15: a build that fails, for whatever reason, leaves the session as it
\* was: the chain with its index and its history, the registry, the stored
\* files and the count of successful builds are unchanged, a session with no
\* build stays without a chain, and any question gets the response it would
\* have got before the failed build.
C15_FailedBuildLeavesSession ==
    [][(last'.op = "process_pdfs" /\ last'.status # 200) =>
          /\ UNCHANGED <<conversation, uploaded_files_registry, disk, builds>>
          /\ builds = "none" => conversation' = None
          /\ SameAnswers]_vars

\* A build that failed with the build error while two turns were kept.
C15_Witness ==
    /\ last.op = "process_pdfs"
    /\ last.status = 500
    /\ builds # "none"
    /\ Turns(conversation) = 2

\* C16: compare_reports, with whatever outcome, leaves the chain (index and
\* history), the registry and the stored files unchanged, and any question
\* gets the response it would have got without the comparison.
C16_CompareChangesNothing ==
    [][last'.op = "compare_reports" =>
          /\ UNCHANGED <<conversation, uploaded_files_registry, disk, builds>>
          /\ SameAnswers]_vars

\* A comparison that succeeded while a conversation with a turn was kept.
C16_Witness ==
    /\ last.op = "compare_reports"
    /\ last.status = 200
    /\ Turns(conversation) >= 1

====
